---- MODULE Spec2Model ----
(***************************************************************************)
(* A model of the universal-inserter crate: Quantities, Ticks and the      *)
(* Inserter's write / commit / force_commit / end protocol.                *)
(*                                                                         *)
(* Option<T> is a sequence of length 0 (None) or 1 (Some(x)).  Time is an  *)
(* integer clock `now` that the environment advances (Instant::now()).     *)
(* The crate is modelled as built by default, that is without the          *)
(* `period_bias` feature, where apply_bias is the identity.                *)
(*                                                                         *)
(* The sink call is the one suspension point of the protocol: a flush of   *)
(* a non-empty buffer is split into BeginFlush (up to the .await) and the  *)
(* sink's outcome (SinkOk, SinkErr, or SinkCancel when the future is       *)
(* dropped while the sink is in flight).                                   *)
(***************************************************************************)
EXTENDS Integers, Sequences, FiniteSets, TLC

\* ------------------------------------------------------------------ bounds
MaxWrites == 3      \* write calls in one run
MaxTime == 2        \* the clock runs over 0..MaxTime
MaxPeriod == 1      \* with_period(p) for p in 0..MaxPeriod
MaxRowLimit == 1    \* with_max_rows(n) for n in 0..MaxRowLimit

\* u64::MAX, the default max_rows; stands for a limit no run reaches.
U64_MAX == 2147483647

\* ------------------------------------------------------------- Option<T>
None == <<>>
Some(x) == <<x>>
is_some(o) == o # None
unwrap(o) == o[1]

\* ------------------------------------------------------------ Quantities
ZERO == [rows |-> 0, transactions |-> 0]

is_empty(q) == q.rows = 0

\* ----------------------------------------------------------------- Ticks
Ticks_new == [period |-> None, next_at |-> None]

Ticks_with_period(self, p) == [self EXCEPT !.period = Some(p)]

apply_bias(self, p) == p

reschedule_without_period(self, t) ==
    [self EXCEPT !.next_at =
        Some(t + (IF is_some(self.period) THEN unwrap(self.period) ELSE 0))]
reschedule(self, t) ==
    IF is_some(self.period)
    THEN [self EXCEPT !.next_at = Some(t + apply_bias(self, unwrap(self.period)))]
    ELSE self

start_rearming(self, t) == reschedule(self, t)
start(self, t) ==
    IF is_some(self.period) /\ ~is_some(self.next_at)
    THEN reschedule(self, t)
    ELSE self

reached_strictly_after(self, t) == is_some(self.next_at) /\ t > unwrap(self.next_at)
reached(self, t) == is_some(self.next_at) /\ t >= unwrap(self.next_at)

Ticks_time_left(self, t) ==
    IF is_some(self.next_at)
    THEN Some(IF t >= unwrap(self.next_at) THEN 0 ELSE unwrap(self.next_at) - t)
    ELSE None

\* -------------------------------------------------------------- Inserter
Inserter_new ==
    [max_rows |-> U64_MAX,
     buffer |-> <<>>,
     ticks |-> Ticks_new,
     pending |-> ZERO,
     committed |-> ZERO,
     in_transaction |-> FALSE,
     on_commit |-> FALSE]

with_max_rows(self, n) == [self EXCEPT !.max_rows = n]

with_period(self, p) == [self EXCEPT !.ticks = Ticks_with_period(self.ticks, p)]

with_commit_callback(self) == [self EXCEPT !.on_commit = TRUE]

time_left(self, t) == Ticks_time_left(self.ticks, t)

limits_reached(self, t) ==
    self.pending.rows >= self.max_rows \/ reached(self.ticks, t)

start_if_needed_never(self, t) == self
start_if_needed(self, t) == [self EXCEPT !.ticks = start(self.ticks, t)]

write_owned_counting_every_write(self, item, t) ==
    LET s == start_if_needed(self, t) IN
    [s EXCEPT !.buffer = Append(s.buffer, item),
              !.pending = [rows |-> s.pending.rows + 1,
                           transactions |-> s.pending.transactions + 1],
              !.in_transaction = TRUE]
write_owned_prepending(self, item, t) ==
    LET s == start_if_needed(self, t) IN
    [s EXCEPT !.buffer = <<item>> \o s.buffer,
              !.pending = [rows |-> s.pending.rows + 1,
                           transactions |-> s.pending.transactions
                                            + (IF s.in_transaction THEN 0 ELSE 1)],
              !.in_transaction = TRUE]
write_owned(self, item, t) ==
    LET s == start_if_needed(self, t) IN
    [s EXCEPT !.buffer = Append(s.buffer, item),
              !.pending = [rows |-> s.pending.rows + 1,
                           transactions |-> s.pending.transactions
                                            + (IF s.in_transaction THEN 0 ELSE 1)],
              !.in_transaction = TRUE]

\* flush, line 109: the early return on an empty buffer.
flush_nothing_never(self) == FALSE
flush_nothing(self) == self.buffer = <<>>

\* flush, line 113: std::mem::take leaves an empty Vec in self.buffer.
flush_take_keeping_items(self) == self
flush_take_closing_transaction(self) ==
    [self EXCEPT !.buffer = <<>>, !.in_transaction = FALSE]
flush_take_resetting_pending(self) ==
    [self EXCEPT !.buffer = <<>>, !.pending = ZERO]
flush_take(self) == [self EXCEPT !.buffer = <<>>]

\* flush, lines 118-125, after the sink returned Ok: the bookkeeping, then the
\* observer.  `observed` is the sequence of observer invocations (none or
\* one), each with its argument and the Inserter as it is at that moment.
flush_done_rows_only(self, flushed) ==
    LET s == [self EXCEPT !.committed = [rows |-> self.committed.rows + flushed.rows,
                                         transactions |-> self.committed.transactions],
                          !.pending = ZERO,
                          !.in_transaction = FALSE]
    IN [self |-> s,
        observed |-> IF s.on_commit THEN <<[q |-> flushed, seen |-> s]>> ELSE <<>>,
        result |-> flushed]
flush_done_observer_first(self, flushed) ==
    LET s == [self EXCEPT !.committed = [rows |-> self.committed.rows + flushed.rows,
                                         transactions |-> self.committed.transactions
                                                          + flushed.transactions],
                          !.pending = ZERO,
                          !.in_transaction = FALSE]
    IN [self |-> s,
        observed |-> IF s.on_commit THEN <<[q |-> flushed, seen |-> self]>> ELSE <<>>,
        result |-> flushed]
flush_done_transaction_left_open(self, flushed) ==
    LET s == [self EXCEPT !.committed = [rows |-> self.committed.rows + flushed.rows,
                                         transactions |-> self.committed.transactions
                                                          + flushed.transactions],
                          !.pending = ZERO]
    IN [self |-> s,
        observed |-> IF s.on_commit THEN <<[q |-> flushed, seen |-> s]>> ELSE <<>>,
        result |-> flushed]
flush_done(self, flushed) ==
    LET s == [self EXCEPT !.committed = [rows |-> self.committed.rows + flushed.rows,
                                         transactions |-> self.committed.transactions
                                                          + flushed.transactions],
                          !.pending = ZERO,
                          !.in_transaction = FALSE]
    IN [self |-> s,
        observed |-> IF s.on_commit THEN <<[q |-> flushed, seen |-> s]>> ELSE <<>>,
        result |-> flushed]

\* commit, lines 136-139: the return taken when the limits are not reached.
commit_below_limits_resetting_pending(self) ==
    [self EXCEPT !.in_transaction = FALSE, !.pending = ZERO]
commit_below_limits(self) == [self EXCEPT !.in_transaction = FALSE]

\* force_commit, line 151: what follows a flush that returned Ok.
force_commit_tail_without_reschedule(self, t) == self
force_commit_tail(self, t) == [self EXCEPT !.ticks = reschedule(self.ticks, t)]

\* ------------------------------------------------------------------ state
VARIABLES
    ins,        \* the Inserter
    now,        \* Instant::now()
    pc,         \* "idle", "in_flight" (awaiting the sink) or "ended"
    call,       \* the suspended flush: its caller, the batch given to the sink
                \* and the captured `flushed`
    written,    \* history: every item written, in write order
    sink_log,   \* history: every batch handed to the sink, in invocation order
    ok_log,     \* history: every flush the sink accepted, its batch and the
                \* Quantities the flush returned
    cb_log,     \* history: every observer invocation
    tx_open,    \* history: a write happened and, since the latest write, neither
                \* a successful flush nor a commit() below the limits
    armed_at,   \* history: the time at which the current deadline was computed
    oldest_at,  \* history: the time of the write of the oldest buffered item
    last        \* history: the latest operation, the Inserter it was called
                \* on, when, its outcome and the time it returned

vars == <<ins, now, pc, call, written, sink_log, ok_log, cb_log, tx_open, armed_at,
          oldest_at, last>>

NoCall == [op |-> "none", batch |-> <<>>, flushed |-> ZERO]

Periods == {None} \cup {Some(p) : p \in 0..MaxPeriod}
RowLimits == (0..MaxRowLimit) \cup {U64_MAX}

Configure(rows, per, cb) ==
    LET a == IF rows = U64_MAX THEN Inserter_new ELSE with_max_rows(Inserter_new, rows)
        b == IF is_some(per) THEN with_period(a, unwrap(per)) ELSE a
    IN IF cb THEN with_commit_callback(b) ELSE b

\* The record of an operation called now on the Inserter `ins`.
Outcome(op, result, value) ==
    [op |-> op, pre |-> ins, open |-> tx_open, armed |-> armed_at,
     oldest |-> oldest_at, t0 |-> now,
     sinks |-> Len(sink_log), cbs |-> Len(cb_log),
     result |-> result, value |-> value, at |-> now]

\* The deadline of `after` was computed now unless it is the one already held.
Armed(after) ==
    IF after.ticks.next_at # ins.ticks.next_at THEN Some(now) ELSE armed_at

Init ==
    /\ \E rows \in RowLimits, per \in Periods, cb \in BOOLEAN :
          ins = Configure(rows, per, cb)
    /\ now = 0
    /\ pc = "idle"
    /\ call = NoCall
    /\ written = <<>>
    /\ sink_log = <<>>
    /\ ok_log = <<>>
    /\ cb_log = <<>>
    /\ tx_open = FALSE
    /\ armed_at = None
    /\ oldest_at = None
    /\ last = [op |-> "new", pre |-> ins, open |-> FALSE, armed |-> None,
               oldest |-> None, t0 |-> 0,
               sinks |-> 0, cbs |-> 0, result |-> "ok", value |-> ZERO, at |-> 0]

\* The Inserter never looks into an item (T is opaque to it): the k-th item
\* written is k, as the rows TestRow { id: k } of the tests.
NextItem == Len(written) + 1

\* The clock advances, also while the sink is in flight.
Tick ==
    /\ pc # "ended"
    /\ now < MaxTime
    /\ now' = now + 1
    /\ UNCHANGED <<ins, pc, call, written, sink_log, ok_log, cb_log, tx_open,
                   armed_at, oldest_at, last>>

Write ==
    /\ pc = "idle"
    /\ Len(written) < MaxWrites
    /\ LET item == NextItem
           s == write_owned(ins, item, now)
       IN /\ ins' = s
          /\ armed_at' = Armed(s)
          /\ written' = Append(written, item)
          /\ last' = Outcome("write", "ok", ZERO)
    /\ tx_open' = TRUE
    /\ oldest_at' = (IF ins.buffer = <<>> THEN Some(now) ELSE oldest_at)
    /\ UNCHANGED <<now, pc, call, sink_log, ok_log, cb_log>>

\* flush up to the .await of a non-empty batch: the buffer is taken, pending is
\* captured and the sink is invoked.
BeginFlush(op) ==
    /\ ins' = flush_take(ins)
    /\ call' = [op |-> op, batch |-> ins.buffer, flushed |-> ins.pending]
    /\ sink_log' = Append(sink_log, ins.buffer)
    /\ pc' = "in_flight"
    /\ last' = Outcome(op, "in_flight", ZERO)
    /\ oldest_at' = None
    /\ UNCHANGED <<now, written, ok_log, cb_log, tx_open, armed_at>>

\* force_commit() called as `op`, up to its return or its suspension.
ForceCommitAs(op) ==
    IF flush_nothing(ins)
    THEN LET s == force_commit_tail(ins, now)
         IN /\ ins' = s
            /\ armed_at' = Armed(s)
            /\ last' = Outcome(op, "ok", ZERO)
            /\ UNCHANGED <<now, pc, call, written, sink_log, ok_log, cb_log, tx_open,
                           oldest_at>>
    ELSE BeginFlush(op)

Commit ==
    /\ pc = "idle"
    /\ IF ~limits_reached(ins, now)
       THEN /\ ins' = commit_below_limits(ins)
            /\ last' = Outcome("commit", "ok", ZERO)
            /\ tx_open' = FALSE
            /\ UNCHANGED <<now, pc, call, written, sink_log, ok_log, cb_log, armed_at,
                           oldest_at>>
       ELSE ForceCommitAs("commit")

ForceCommit ==
    /\ pc = "idle"
    /\ ForceCommitAs("force_commit")

End ==
    /\ pc = "idle"
    /\ IF flush_nothing(ins)
       THEN /\ pc' = "ended"
            /\ last' = Outcome("end", "ok", ins.committed)
            /\ UNCHANGED <<ins, now, call, written, sink_log, ok_log, cb_log, tx_open,
                           armed_at, oldest_at>>
       ELSE BeginFlush("end")

\* The sink returned Ok(()): the rest of flush, then the rest of the caller.
SinkOk ==
    /\ pc = "in_flight"
    /\ LET d == flush_done(ins, call.flushed)
           s == IF call.op = "end" THEN d.self ELSE force_commit_tail(d.self, now)
       IN /\ ins' = s
          /\ armed_at' = Armed(s)
          /\ cb_log' = cb_log \o d.observed
          /\ ok_log' = Append(ok_log, [batch |-> call.batch, q |-> d.result])
          /\ last' = [last EXCEPT !.result = "ok",
                                  !.value = IF call.op = "end" THEN d.self.committed
                                            ELSE d.result,
                                  !.at = now]
    /\ tx_open' = FALSE
    /\ pc' = IF call.op = "end" THEN "ended" ELSE "idle"
    /\ call' = NoCall
    /\ UNCHANGED <<now, written, sink_log, oldest_at>>

\* The sink returned Err(e): `?` returns InserterError from flush and from its
\* caller; end() has consumed the Inserter.
SinkErr ==
    /\ pc = "in_flight"
    /\ last' = [last EXCEPT !.result = "err", !.at = now]
    /\ pc' = IF call.op = "end" THEN "ended" ELSE "idle"
    /\ call' = NoCall
    /\ UNCHANGED <<ins, now, written, sink_log, ok_log, cb_log, tx_open, armed_at,
                   oldest_at>>

\* The caller drops the future of commit / force_commit / end while the sink is
\* in flight.
SinkCancel ==
    /\ pc = "in_flight"
    /\ last' = [last EXCEPT !.result = "cancelled", !.at = now]
    /\ pc' = IF call.op = "end" THEN "ended" ELSE "idle"
    /\ call' = NoCall
    /\ UNCHANGED <<ins, now, written, sink_log, ok_log, cb_log, tx_open, armed_at,
                   oldest_at>>

Next ==
    \/ Tick
    \/ Write
    \/ Commit
    \/ ForceCommit
    \/ End
    \/ SinkOk
    \/ SinkErr
    \/ SinkCancel

Spec == Init /\ [][Next]_vars

\* --------------------------------------------------------------- helpers
RECURSIVE Flatten(_)
Flatten(batches) ==
    IF batches = <<>> THEN <<>> ELSE Head(batches) \o Flatten(Tail(batches))

\* The sum of the Quantities of the first n accepted flushes.
RECURSIVE SumQ(_, _)
SumQ(log, n) ==
    IF n = 0 THEN ZERO
    ELSE LET r == SumQ(log, n - 1)
         IN [rows |-> r.rows + log[n].q.rows,
             transactions |-> r.transactions + log[n].q.transactions]

NoPeriod == ~is_some(ins.ticks.period)

\* The latest operation is a call of `op` that returned Ok or Err.
Returned(op) == last.op = op /\ last.result \in {"ok", "err"}

\* The number of sink and observer invocations since the latest operation began.
SinkCalls == Len(sink_log) - last.sinks
ObserverCalls == Len(cb_log) - last.cbs

TypeOK ==
    /\ pc \in {"idle", "in_flight", "ended"}
    /\ now \in 0..MaxTime
    /\ Len(written) <= MaxWrites

\* ------------------------------------------------------------------ claims

\* C1: with no period and max_rows = N >= 1, a commit() that finds pending rows
\* < N returns zero Quantities and invokes no sink; a commit() that finds
\* pending rows >= N invokes the sink exactly once with exactly the buffered
\* items, returns their Quantities and, on success, leaves pending at zero and
\* the buffer empty.
C1_CommitAtRowLimit ==
    (NoPeriod /\ ins.max_rows >= 1 /\ Returned("commit")) =>
        IF last.pre.pending.rows < ins.max_rows
        THEN /\ last.result = "ok"
             /\ last.value = ZERO
             /\ SinkCalls = 0
        ELSE /\ SinkCalls = 1
             /\ sink_log[Len(sink_log)] = last.pre.buffer
             /\ last.result = "ok" =>
                   /\ last.value = [rows |-> Len(last.pre.buffer),
                                    transactions |-> last.pre.pending.transactions]
                   /\ ins.pending = ZERO
                   /\ ins.buffer = <<>>

\* C2: when the sink fails during commit(), force_commit() or end(), pending
\* and the buffer are exactly what they were before the call.
C2_FailurePreservesBuffer ==
    (last.op \in {"commit", "force_commit", "end"} /\ last.result = "err") =>
        /\ ins.pending = last.pre.pending
        /\ ins.buffer = last.pre.buffer

\* C3: end() on a non-empty buffer invokes the sink exactly once with all the
\* buffered items and, on success, returns committed totals equal to the sum of
\* the Quantities of every successful flush, the final one included; end() on
\* an empty buffer invokes no sink and returns the committed totals unchanged.
C3_EndTotals ==
    Returned("end") =>
        IF last.pre.buffer # <<>>
        THEN /\ SinkCalls = 1
             /\ sink_log[Len(sink_log)] = last.pre.buffer
             /\ last.result = "ok" =>
                   /\ last.value = SumQ(ok_log, Len(ok_log))
                   /\ ok_log[Len(ok_log)].batch = last.pre.buffer
        ELSE /\ SinkCalls = 0
             /\ last.result = "ok"
             /\ last.value = last.pre.committed
             /\ last.value = SumQ(ok_log, Len(ok_log))

\* C3 witness: a successful end() on a non-empty buffer after an earlier
\* successful flush.
C3_Witness ==
    /\ Returned("end")
    /\ last.result = "ok"
    /\ last.pre.buffer # <<>>
    /\ Len(ok_log) >= 2
    /\ last.value.rows = Len(written)

\* C4: every batch handed to the sink is non-empty, and the batches in
\* invocation order followed by the buffer are the items written so far, in
\* write order: no item is duplicated, dropped before it reaches the sink or
\* handed over twice.
C4_BatchesPartitionWrites ==
    /\ \A i \in 1..Len(sink_log) : sink_log[i] # <<>>
    /\ Flatten(sink_log) \o ins.buffer = written
    /\ Cardinality({written[i] : i \in 1..Len(written)}) = Len(written)

\* C4 witness: two batches were handed over and an item is still buffered.
C4_Witness ==
    /\ Len(sink_log) >= 2
    /\ ins.buffer # <<>>
    /\ Len(Flatten(sink_log)) + Len(ins.buffer) = MaxWrites

\* C5: a write increments pending.transactions only when it is the first write
\* since construction or since the latest sink invocation, also when commit()
\* calls that return without flushing occur between the writes.  (The buffer
\* holds exactly the items written since the latest sink invocation.)
C5_OneTransactionPerFlush ==
    last.op = "write" =>
        ins.pending.transactions =
            last.pre.pending.transactions + (IF last.pre.buffer = <<>> THEN 1 ELSE 0)

\* C5, amended: a write increments pending.transactions, by 1, exactly when it
\* is the first write since construction, since the latest successful flush or
\* since the latest commit() that found the limits not reached.
C5_OneTransactionPerBoundary ==
    last.op = "write" =>
        /\ ins.pending.transactions =
               last.pre.pending.transactions + (IF last.open THEN 0 ELSE 1)
        /\ ins.pending.rows = last.pre.pending.rows + 1

\* C5 witness: three buffered writes, a commit() below the limits after the
\* first one: two transactions are pending, not one and not three.
C5_Witness ==
    /\ last.op = "write"
    /\ last.open
    /\ Len(ins.buffer) = 3
    /\ sink_log = <<>>
    /\ ins.pending.transactions = 2

\* C6: the observer is invoked exactly once per successful non-empty flush and
\* never otherwise; it receives the Quantities the flush returns, and when it
\* runs committed already includes them, pending is zero, in_transaction is
\* false and the buffer is empty.
C6_ObserverOncePerFlush ==
    /\ Len(cb_log) = (IF ins.on_commit THEN Len(ok_log) ELSE 0)
    /\ \A i \in 1..Len(cb_log) :
          /\ cb_log[i].q = ok_log[i].q
          /\ cb_log[i].seen.committed = SumQ(ok_log, i)
          /\ cb_log[i].seen.pending = ZERO
          /\ ~cb_log[i].seen.in_transaction
          /\ cb_log[i].seen.buffer = <<>>
    /\ last.op \in {"commit", "force_commit", "end"} =>
          /\ ObserverCalls =
                (IF ins.on_commit /\ last.result = "ok" /\ SinkCalls = 1 THEN 1 ELSE 0)
          /\ (ObserverCalls = 1 /\ last.op # "end") =>
                cb_log[Len(cb_log)].q = last.value

\* C6 witness: the observer has run for two flushes, the second one committed
\* by commit(), and a third sink call failed.
C6_Witness ==
    /\ Len(cb_log) = 2
    /\ Len(sink_log) = 3
    /\ pc = "idle"
    /\ ok_log[2].batch = sink_log[3]
    /\ last.op = "commit"
    /\ ObserverCalls = 1

\* The latest sink invocation did not succeed, and nothing was written since.
LatestSinkFailed ==
    /\ pc # "in_flight"
    /\ sink_log # <<>>
    /\ ok_log = <<>> \/ ok_log[Len(ok_log)].batch # sink_log[Len(sink_log)]
NoWriteSinceSink == Len(Flatten(sink_log)) = Len(written)

\* C7: a call in which the sink fails invokes the sink exactly once and leaves
\* the buffer empty; as long as nothing is written, commit(), force_commit()
\* and end() then invoke no sink and flush nothing, and no item is ever handed
\* to the sink twice.
C7_FailureNotRetried ==
    /\ (last.op \in {"commit", "force_commit", "end"} /\ last.result = "err") =>
          /\ SinkCalls = 1
          /\ ins.buffer = <<>>
    /\ (LatestSinkFailed /\ NoWriteSinceSink) =>
          /\ ins.buffer = <<>>
          /\ last.op \in {"commit", "force_commit", "end"}
          /\ \/ last.result \in {"err", "cancelled"} /\ SinkCalls = 1
             \/ /\ last.result = "ok"
                /\ SinkCalls = 0
                /\ ObserverCalls = 0
                /\ last.value = (IF last.op = "end" THEN last.pre.committed ELSE ZERO)
                /\ ins.committed = last.pre.committed
    /\ LET handed == Flatten(sink_log)
       IN Cardinality({handed[i] : i \in 1..Len(handed)}) = Len(handed)

\* C7 witness: after a failed flush of two items, a force_commit() retry
\* returned without invoking the sink.
C7_Witness ==
    /\ LatestSinkFailed
    /\ NoWriteSinceSink
    /\ last.op = "force_commit"
    /\ last.result = "ok"
    /\ SinkCalls = 0
    /\ ins.pending.rows = 2

\* C8: with a period P > 0 and no row limit, right after the write that arms
\* the deadline the deadline is not reached, and a commit() before P has
\* elapsed since the deadline was set returns zero Quantities without invoking
\* the sink; once P has elapsed, reached() is true and commit() hands all the
\* buffered items to the sink.
C8_PeriodTriggersCommit ==
    (is_some(ins.ticks.period) /\ unwrap(ins.ticks.period) > 0 /\ ins.max_rows = U64_MAX) =>
        LET P == unwrap(ins.ticks.period) IN
        /\ (last.op = "write" /\ ~is_some(last.pre.ticks.next_at) /\ now = last.at) =>
              /\ armed_at = Some(now)
              /\ is_some(ins.ticks.next_at)
              /\ ~reached(ins.ticks, now)
        /\ is_some(armed_at) => (reached(ins.ticks, now) <=> now >= unwrap(armed_at) + P)
        /\ last.op = "commit" =>
              IF is_some(last.armed) /\ last.t0 >= unwrap(last.armed) + P
              THEN last.pre.buffer # <<>> =>
                      /\ SinkCalls = 1
                      /\ sink_log[Len(sink_log)] = last.pre.buffer
              ELSE /\ last.result = "ok"
                   /\ last.value = ZERO
                   /\ SinkCalls = 0
                   /\ ins.buffer = last.pre.buffer

\* C8 witness: a commit() made exactly P after the first write flushed the two
\* buffered items.
C8_Witness ==
    /\ is_some(ins.ticks.period)
    /\ unwrap(ins.ticks.period) = MaxPeriod
    /\ ins.max_rows = U64_MAX
    /\ last.op = "commit"
    /\ last.result = "ok"
    /\ last.armed = Some(0)
    /\ last.t0 = MaxPeriod
    /\ SinkCalls = 1
    /\ sink_log = <<<<1, 2>>>>

\* C9: force_commit() on an empty buffer returns zero Quantities, invokes
\* neither the sink nor the observer, and leaves committed, pending and
\* in_transaction unchanged.
C9_ForceCommitEmpty ==
    (last.op = "force_commit" /\ last.pre.buffer = <<>>) =>
        /\ last.result = "ok"
        /\ last.value = ZERO
        /\ SinkCalls = 0
        /\ ObserverCalls = 0
        /\ ins.committed = last.pre.committed
        /\ ins.pending = last.pre.pending
        /\ ins.in_transaction = last.pre.in_transaction
        /\ ins.buffer = <<>>

\* C9 witness: force_commit() on a buffer emptied by a successful flush, with
\* an observer configured.
C9_Witness ==
    /\ last.op = "force_commit"
    /\ last.pre.buffer = <<>>
    /\ last.pre.committed.rows > 0
    /\ ins.on_commit

\* C10: with a period configured, time_left() is None and the deadline is
\* unarmed from construction until the first write, whatever commit() or
\* force_commit() calls are made in that interval.
C10_UnarmedUntilFirstWrite ==
    (is_some(ins.ticks.period) /\ written = <<>>) =>
        /\ time_left(ins, now) = None
        /\ ~is_some(ins.ticks.next_at)

\* The latest operation is a force_commit(), or a commit() that found the
\* limits reached, that returned Ok.
ForceCommitted ==
    /\ last.result = "ok"
    /\ \/ last.op = "force_commit"
       \/ last.op = "commit" /\ limits_reached(last.pre, last.t0)

\* C10, amended: with a period configured, the deadline is unarmed and
\* time_left() is None from construction until the first write or the first
\* successful return of force_commit() (or of a commit() that found the limits
\* reached), whichever comes first; after that the deadline is recomputed only
\* when such a call returns successfully, with or without items to flush.
C10_ArmedByWriteOrForceCommit ==
    /\ [][ins'.ticks.next_at # ins.ticks.next_at =>
             \/ /\ written' # written
                /\ ~is_some(ins.ticks.next_at)
                /\ ins'.ticks.next_at = Some(now + unwrap(ins.ticks.period))
             \/ /\ written' = written
                /\ ForceCommitted'
                /\ last'.at = now
                /\ ins'.ticks.next_at = Some(now + unwrap(ins.ticks.period))]_vars
    /\ [](is_some(ins.ticks.next_at) <=> is_some(time_left(ins, now)))
    /\ [](is_some(ins.ticks.next_at) => is_some(ins.ticks.period))
    /\ ~is_some(ins.ticks.next_at)

\* C10 witness: the deadline is armed although nothing was ever written.
C10_Witness ==
    /\ written = <<>>
    /\ is_some(ins.ticks.next_at)
    /\ last.op = "force_commit"

\* C11: if no period is configured, then after any sequence of operations the
\* deadline is unset, reached() is false and time_left() is None, and a
\* commit() flushes only when the row limit is reached.
C11_NoPeriodNoDeadline ==
    NoPeriod =>
        /\ ~is_some(ins.ticks.next_at)
        /\ ~reached(ins.ticks, now)
        /\ time_left(ins, now) = None
        /\ armed_at = None
        /\ (last.op = "commit" /\ last.pre.pending.rows < ins.max_rows) =>
              /\ SinkCalls = 0
              /\ last.value = ZERO

\* C11 witness: without a period, a write, a force_commit() and a later
\* commit() below the row limit happened while the clock advanced.
C11_Witness ==
    /\ NoPeriod
    /\ now = MaxTime
    /\ Len(ok_log) >= 1
    /\ ins.buffer # <<>>
    /\ last.op = "commit"
    /\ last.t0 = MaxTime
    /\ SinkCalls = 0

\* C12: between operations pending().rows is the number of items held in the
\* buffer, also after a sink failure.
C12_PendingRowsAreBufferedItems ==
    pc # "in_flight" => ins.pending.rows = Len(ins.buffer)

\* C13: the rows returned by a successful flush are the number of items of the
\* batch the sink accepted, and committed.rows is the total number of items in
\* the accepted batches.
C13_CommittedRowsAreAcceptedItems ==
    /\ \A i \in 1..Len(ok_log) : ok_log[i].q.rows = Len(ok_log[i].batch)
    /\ LET accepted == Flatten([i \in 1..Len(ok_log) |-> ok_log[i].batch])
       IN ins.committed.rows = Len(accepted)

\* C14: with a period P configured, whenever the buffer is non-empty a deadline
\* is armed and it is at most P after the write of the oldest buffered item,
\* whatever force_commit() calls and sink failures came before; so a commit()
\* made P or more after that write hands the buffered items to the sink.
C14_BoundedLatency ==
    is_some(ins.ticks.period) =>
        LET P == unwrap(ins.ticks.period) IN
        /\ ins.buffer # <<>> =>
              /\ is_some(oldest_at)
              /\ is_some(ins.ticks.next_at)
              /\ unwrap(ins.ticks.next_at) <= unwrap(oldest_at) + P
        /\ (last.op = "commit" /\ last.pre.buffer # <<>>
              /\ last.t0 >= unwrap(last.oldest) + P) =>
              /\ SinkCalls = 1
              /\ sink_log[Len(sink_log)] = last.pre.buffer

\* C14 witness: after a failed flush and a force_commit(), an item written at
\* time 1 was handed to the sink by a commit() at time 1 + P with no row limit.
C14_Witness ==
    /\ is_some(ins.ticks.period)
    /\ unwrap(ins.ticks.period) = MaxPeriod
    /\ ins.max_rows = U64_MAX
    /\ last.op = "commit"
    /\ last.oldest = Some(1)
    /\ last.t0 = 1 + MaxPeriod
    /\ SinkCalls = 1
    /\ Len(sink_log) >= 2
    /\ Len(ok_log) < Len(sink_log) - 1

\* C15: with a period P configured, every force_commit(), and every commit()
\* that finds the limits reached, that returns successfully leaves the deadline
\* at its completion time + P, also when the buffer was empty; so with P > 0
\* the deadline is not reached right after it.
C15_ForceCommitReschedules ==
    (is_some(ins.ticks.period) /\ ForceCommitted) =>
        LET P == unwrap(ins.ticks.period) IN
        /\ ins.ticks.next_at = Some(last.at + P)
        /\ armed_at = Some(last.at)
        /\ time_left(ins, last.at) = Some(P)
        /\ (P > 0 /\ now = last.at) => ~reached(ins.ticks, now)

\* C15 witness: a force_commit() on an empty buffer, called when the deadline
\* was reached, moved the deadline to its own time + P.
C15_Witness ==
    /\ is_some(ins.ticks.period)
    /\ unwrap(ins.ticks.period) > 0
    /\ last.op = "force_commit"
    /\ last.result = "ok"
    /\ last.pre.buffer = <<>>
    /\ reached(last.pre.ticks, last.t0)
    /\ last.at = MaxTime
    /\ now = last.at
    /\ ~reached(ins.ticks, now)

\* C16: when the sink fails during commit() or force_commit(), the committed
\* totals, in_transaction and the deadline are unchanged by the call and the
\* observer is not invoked.
C16_FailureLeavesTotalsAndDeadline ==
    (last.op \in {"commit", "force_commit"} /\ last.result = "err") =>
        /\ ins.committed = last.pre.committed
        /\ ins.in_transaction = last.pre.in_transaction
        /\ ins.ticks = last.pre.ticks
        /\ armed_at = last.armed
        /\ ObserverCalls = 0
        /\ SinkCalls = 1

\* C16 witness: a force_commit() failed after an earlier successful flush, with
\* an observer and a period configured, and the clock advanced while the sink
\* was in flight.
C16_Witness ==
    /\ last.op = "force_commit"
    /\ last.result = "err"
    /\ ins.on_commit
    /\ is_some(ins.ticks.period)
    /\ last.pre.committed.rows > 0
    /\ last.pre.in_transaction
    /\ last.at > last.t0

\* C17: a commit() that finds the limits not reached changes nothing except
\* that it clears in_transaction: buffer, pending, committed and the deadline
\* are unchanged, neither sink nor observer is invoked, and it returns zero
\* Quantities.
C17_CommitBelowLimitsFrame ==
    (last.op = "commit" /\ ~limits_reached(last.pre, last.t0)) =>
        /\ last.result = "ok"
        /\ last.value = ZERO
        /\ SinkCalls = 0
        /\ ObserverCalls = 0
        /\ ins.buffer = last.pre.buffer
        /\ ins.pending = last.pre.pending
        /\ ins.committed = last.pre.committed
        /\ ins.ticks = last.pre.ticks
        /\ ins.max_rows = last.pre.max_rows
        /\ ~ins.in_transaction

\* C17 witness: a commit() below the limits with two items buffered in an open
\* transaction and a deadline armed.
C17_Witness ==
    /\ last.op = "commit"
    /\ ~limits_reached(last.pre, last.t0)
    /\ Len(last.pre.buffer) = 2
    /\ last.pre.in_transaction
    /\ is_some(last.pre.ticks.next_at)
    /\ ins.pending = [rows |-> 2, transactions |-> 1]

\* C18: while the sink is in flight the buffer is empty, pending holds the
\* captured amount and committed is not yet updated; when the call is cancelled
\* at that point the Inserter stays as it was before the call except that the
\* buffer is empty: the batch is no longer held by the Inserter.
C18_InFlightAndCancelled ==
    /\ pc = "in_flight" =>
          /\ ins.buffer = <<>>
          /\ call.batch = last.pre.buffer
          /\ call.batch # <<>>
          /\ call.flushed = ins.pending
          /\ ins = [last.pre EXCEPT !.buffer = <<>>]
    /\ last.result = "cancelled" =>
          /\ pc # "in_flight"
          /\ ins = [last.pre EXCEPT !.buffer = <<>>]
          /\ armed_at = last.armed
          /\ sink_log[Len(sink_log)] = last.pre.buffer
          /\ SinkCalls = 1
          /\ ObserverCalls = 0

\* C18 witness: a commit() holding two items was cancelled while the sink was
\* in flight.
C18_Witness ==
    /\ last.op = "commit"
    /\ last.result = "cancelled"
    /\ Len(last.pre.buffer) = 2
    /\ ins.pending.rows = 2
    /\ ins.buffer = <<>>

\* C19: a write made while a deadline is armed never changes the deadline; the
\* deadline changes only when a write first arms it or when force_commit()
\* (also inside commit()) reschedules it.
C19_WritesKeepDeadline ==
    /\ (last.op = "write" /\ is_some(last.pre.ticks.next_at)) =>
          /\ ins.ticks = last.pre.ticks
          /\ armed_at = last.armed
    /\ ins.ticks.next_at # last.pre.ticks.next_at =>
          \/ last.op = "write" /\ ~is_some(last.pre.ticks.next_at)
          \/ ForceCommitted

\* C19 witness: a write made after the armed deadline had already been reached
\* left the deadline where it was.
C19_Witness ==
    /\ last.op = "write"
    /\ is_some(last.pre.ticks.next_at)
    /\ unwrap(ins.ticks.period) > 0
    /\ reached(last.pre.ticks, last.t0)
    /\ last.t0 > unwrap(last.armed)
    /\ Len(ins.buffer) >= 2

\* C20: the pending counters are consistent: pending.transactions <=
\* pending.rows, pending.rows = 0 exactly when pending.transactions = 0, and
\* in_transaction implies pending.transactions >= 1.
C20_PendingConsistent ==
    /\ ins.pending.transactions <= ins.pending.rows
    /\ is_empty(ins.pending) <=> ins.pending.transactions = 0
    /\ is_empty(ins.pending) <=> ins.pending = ZERO
    /\ ins.in_transaction => ins.pending.transactions >= 1

\* C20 witness: three rows in two transactions are pending, the second
\* transaction open, after a sink failure.
C20_Witness ==
    /\ ins.pending = [rows |-> 3, transactions |-> 2]
    /\ ins.in_transaction
    /\ Len(sink_log) > Len(ok_log)
    /\ pc = "idle"

====
